---- MODULE Spec2Model ----
(***************************************************************************)
(* crt_fill_parameters.py (GSFLOW CRT fill parameters) as a state machine. *)
(*                                                                         *)
(* The script is one sequential function.  Each action below is one of its *)
(* phases, in program order; pc names the phase that runs next.  A phase   *)
(* that ends in sys.exit() or in an uncaught exception moves to "aborted"  *)
(* and records the phase in exit_at.                                       *)
(*                                                                         *)
(* The fishnet (hru.polygon_path) is the variable grid: one record per     *)
(* cell <<row, col>>.  Floating point values (elevations, fill depths) are *)
(* integers here; a solver result token is a record that says whether the  *)
(* text parses as a number and, if so, which one.                          *)
(***************************************************************************)
EXTENDS Integers, Sequences, FiniteSets

\* ------------------------------------------------------------ bounds
NRows == 2
NCols == 2
\* the largest number of cells of an input fishnet that are not inactive
MaxRouted == 3
\* the largest number of cells that differ from the nominal solver report,
\* and of outflow flags beside the stream cell's
MaxOdd == 2

\* ------------------------------------------------- program constants
exit_seg == 0
crt_iprn == 1
fill_strmflg == 0
fill_visflg == 0
fill_ifill == 1
crt_hruflg == 0
crt_flowflg == 1
crt_outitmax == 100000

\* the value of a derived field nothing has written yet
NoValue == 0 - 9

VARIABLES
  pc,                 \* the phase that runs next, "done" or "aborted"
  exit_at,            \* the phase that ended the run early, "" otherwise
  cfg_flag,           \* INI option use_crt_fill_flag: "absent", "true", "false"
  use_crt_fill_flag,  \* the flag as read from the INI file
  grid,               \* the fishnet: cell -> attribute record
  order,              \* the order in which cursors enumerate the cells
  cell_dict,          \* (col,row) -> record of a stream/lake cell
  iseg_list,          \* sorted distinct IRUNBOUND values of cell_dict
  seg_i,              \* index in iseg_list of the segment assigned next
  outseg_dict,        \* iseg -> outseg
  files,              \* the four CRT input files in fill_ws
  crt_results,        \* which result files the solver may write: "nominal", "any"
  crt_exit,           \* exit status the external solver will return
  crt_ran,            \* TRUE once the external solver has been invoked
  output_data,        \* the stripped lines of outputstat.txt as read
  picked,             \* iseg -> the element list(set(...))[0] gave for its exit cells
  rerun,              \* "" in a first run, else what is being run again
  prev                \* what the first run left, once something runs again

vars ==
  <<pc, exit_at, cfg_flag, use_crt_fill_flag, grid, order, cell_dict,
    iseg_list, seg_i, outseg_dict, files, crt_results, crt_exit, crt_ran,
    output_data, picked, rerun, prev>>

\* ------------------------------------------------------------- cells
Cells == (1..NRows) \X (1..NCols)

RowOf(c) == c[1]

ColOf(c) == c[2]

\* hru.id_field: row-major cell number
HruId(c) == (RowOf(c) - 1) * NCols + ColOf(c)

\* hru.x_field, hru.y_field: cell centre coordinates
HruX(c) == 100 * ColOf(c)

HruY(c) == 100 * (NRows + 1 - RowOf(c))

\* the DEM_ADJ every cell starts with
DemOf(c) == 10 * RowOf(c) + ColOf(c)

\* key of a fishnet cell in cell_dict: cell = (int(row[7]), int(row[8]))
\* with row[7] the column field and row[8] the row field
KeyOf(c) == <<ColOf(c), RowOf(c)>>

\* ------------------------------------------ Flow Direction Decoder
FlowDirCodes == {1, 2, 4, 8, 16, 32, 64, 128}

\* offset in (row, column) space, row increasing downward:
\* 1 E, 2 SE, 4 S, 8 SW, 16 W, 32 NW, 64 N, 128 NE
RowOffset(flow_dir) ==
  IF flow_dir \in {2, 4, 8} THEN 1
  ELSE IF flow_dir \in {32, 64, 128} THEN 0 - 1
  ELSE 0

ColOffset(flow_dir) ==
  IF flow_dir \in {1, 2, 128} THEN 1
  ELSE IF flow_dir \in {8, 16, 32} THEN 0 - 1
  ELSE 0

\* support.next_row_col(flow_dir, cell), cell being (col, row)
next_row_col(flow_dir, cell) ==
  <<cell[1] + ColOffset(flow_dir), cell[2] + RowOffset(flow_dir)>>

\* ------------------------------------------------------- sequences
RECURSIVE SortedSeq(_)
\* sorted(list(S)) for a finite set of integers
SortedSeq(S) ==
  IF S = {} THEN <<>>
  ELSE LET m == CHOOSE x \in S : \A y \in S : x <= y
       IN <<m>> \o SortedSeq(S \ {m})

Range(s) == {s[i] : i \in DOMAIN s}

\* position of cell c in the cursor order
PosOf(ord, c) == CHOOSE i \in DOMAIN ord : ord[i] = c

\* SelectSeq with a LAMBDA-free test: the cells of ord that are in S
RECURSIVE Filter(_, _)
Filter(ord, S) ==
  IF ord = <<>> THEN <<>>
  ELSE (IF Head(ord) \in S THEN <<Head(ord)>> ELSE <<>>) \o Filter(Tail(ord), S)

\* ------------------------------------------------------ input grids
\* attribute sets written by the upstream scripts for one cell
Inactive == [hru_type |-> 0, lake_id |-> 0, iseg |-> 0, irunbound |-> 0]
Land     == [hru_type |-> 1, lake_id |-> 0, iseg |-> 0, irunbound |-> 0]
Stream1  == [hru_type |-> 3, lake_id |-> 0, iseg |-> 1, irunbound |-> 1]
Stream2  == [hru_type |-> 1, lake_id |-> 0, iseg |-> 2, irunbound |-> 2]
\* a lake cell as dem_2_streams leaves it
Lake     == [hru_type |-> 2, lake_id |-> 1, iseg |-> 0 - 1, irunbound |-> 0 - 1]
\* a lake cell as a previous run of this script leaves it (ISEG zeroed)
LakeZeroed == [hru_type |-> 2, lake_id |-> 1, iseg |-> 0, irunbound |-> 0 - 1]
\* a lake-type cell with a negative ISEG and no LAKE_ID
LakeNoId == [hru_type |-> 2, lake_id |-> 0, iseg |-> 0 - 1, irunbound |-> 0 - 1]

MkCell(kind, flow_dir, outflow, c) ==
  [hru_type |-> kind.hru_type, lake_id |-> kind.lake_id, iseg |-> kind.iseg,
   irunbound |-> kind.irunbound, flow_dir |-> flow_dir, outflow |-> outflow,
   subbasin |-> 1, dem_adj |-> DemOf(c),
   krch |-> NoValue, irch |-> NoValue, jrch |-> NoValue,
   outseg |-> NoValue, reach |-> NoValue, maxreach |-> NoValue,
   crt_elev |-> NoValue, crt_fill |-> NoValue]

\* row-major cursor order and its reverse
RowMajor == [i \in 1..(NRows * NCols) |->
               <<((i - 1) \div NCols) + 1, ((i - 1) % NCols) + 1>>]

Reversed(s) == [i \in 1..Len(s) |-> s[Len(s) + 1 - i]]

\* ------------------------------------------------ solver result file
\* a whitespace-separated token of outputstat.txt
Num(v) == [num |-> TRUE, val |-> v]

\* a token that is not the text of a number (overflow symbols, words)
Sym == [num |-> FALSE, val |-> 0]

\* support.is_number(s)
is_number(tok) == tok.num

\* one stripped line of the file: its text when it is a marker or a title,
\* and the tokens str.split() gives
DemMarker ==
  [txt |-> "CRT FILLED LAND SURFACE MODEL USED TO GENERATE CASCADES",
   toks |-> [i \in 1..10 |-> Sym]]

FillMarker ==
  [txt |-> "DIFFERENCES BETWEEN FILLED AND UNFILLED LAND SURFACE MODELS",
   toks |-> [i \in 1..9 |-> Sym]]

TitleLine == [txt |-> "CASCADE ROUTING TOOL", toks |-> [i \in 1..3 |-> Sym]]

RowLine(toks) == [txt |-> "", toks |-> toks]

\* what the solver may report for one cell: filled elevation and fill depth
TokPairs ==
  { [dem |-> Num(60), fill |-> Num(0)],
    [dem |-> Num(70), fill |-> Num(2)],
    [dem |-> Sym,     fill |-> Sym],
    [dem |-> Num(80), fill |-> Sym] }

DemRows(pairs, n) ==
  [r \in 1..n |-> RowLine([c \in 1..NCols |-> pairs[<<r, c>>].dem])]

FillRows(pairs, n) ==
  [r \in 1..n |-> RowLine([c \in 1..NCols |-> pairs[<<r, c>>].fill])]

\* a result file: complete, or with one of the defects a solver run that
\* stopped early leaves
ResultFile(shape, pairs) ==
  CASE shape = "complete" ->
         <<TitleLine, DemMarker>> \o DemRows(pairs, NRows)
           \o <<FillMarker>> \o FillRows(pairs, NRows)
    [] shape = "no_dem_marker" ->
         <<TitleLine>> \o DemRows(pairs, NRows)
           \o <<FillMarker>> \o FillRows(pairs, NRows)
    [] shape = "no_fill_marker" ->
         <<TitleLine, DemMarker>> \o DemRows(pairs, NRows)
           \o FillRows(pairs, NRows)
    [] shape = "no_marker" ->
         <<TitleLine>> \o DemRows(pairs, NRows) \o FillRows(pairs, NRows)
    [] shape = "short_block" ->
         <<TitleLine, DemMarker>> \o DemRows(pairs, NRows - 1)
           \o <<FillMarker>> \o FillRows(pairs, NRows)
    [] OTHER ->
         <<TitleLine, DemMarker>> \o DemRows(pairs, NRows) \o <<FillMarker>>

DefectShapes ==
  {"no_dem_marker", "no_fill_marker", "no_marker", "short_block", "no_fill_rows"}

NominalPairs == [c \in Cells |-> [dem |-> Num(70), fill |-> Num(2)]]

NominalResult == ResultFile("complete", NominalPairs)

\* reports that differ from the nominal one in at most MaxOdd cells
SomePairs ==
  UNION {{[c \in Cells |-> IF c \in V THEN p[c] ELSE NominalPairs[c]] :
            p \in [V -> TokPairs]} :
         V \in {W \in SUBSET Cells : Cardinality(W) <= MaxOdd}}

\* the result files the external solver may leave in fill_ws
CrtResults(which) ==
  IF which = "nominal" THEN {NominalResult}
  ELSE {ResultFile("complete", pairs) : pairs \in SomePairs}
         \cup {ResultFile(shape, NominalPairs) : shape \in DefectShapes}

\* ------------------------------------------------------- CRT files
FileAbsent == [exists |-> FALSE, header |-> <<>>, lines |-> <<>>]

StaleFile == [exists |-> TRUE, header |-> <<"stale">>, lines |-> <<>>]

FileNames == {"OUTFLOW_HRU.DAT", "HRU_CASC.DAT", "LAND_ELEV.DAT", "XY.DAT"}

\* -------------------------------------------------------------- Init
\* the state when crt_fill_parameters() is entered with fishnet g
InitWith(g, ord, flag_opt, stale, results, status) ==
  /\ pc = "config"
  /\ exit_at = ""
  /\ cfg_flag = flag_opt
  /\ use_crt_fill_flag = FALSE
  /\ grid = g
  /\ order = ord
  /\ cell_dict = [k \in {} |-> 0]
  /\ iseg_list = <<>>
  /\ seg_i = 1
  /\ outseg_dict = [k \in {} |-> 0]
  /\ files = [f \in FileNames |-> IF stale THEN StaleFile ELSE FileAbsent]
  /\ crt_results = results
  /\ crt_exit = status
  /\ crt_ran = FALSE
  /\ output_data = <<>>
  /\ picked = [k \in {} |-> 0]
  /\ rerun = ""
  /\ prev = <<>>

\* a kind of cell with a flow direction
Opt(kind, flow_dir) == [kind |-> kind, flow_dir |-> flow_dir]

StreamOptions ==
  {Opt(Stream1, 1), Opt(Stream1, 4), Opt(Stream1, 16), Opt(Stream2, 1)}

LakeOptions == {Opt(Lake, 1), Opt(Lake, 16), Opt(Stream1, 16)}

\* the subsets of S with at most MaxRouted elements
FewOf(S) == {R \in SUBSET S : Cardinality(R) <= MaxRouted}

\* a fishnet whose cells in R are as opt says and whose other cells are
\* inactive; every cell is flagged as outflow cell
RoutedGrid(R, opt) ==
  [c \in Cells |->
     IF c \in R THEN MkCell(opt[c].kind, opt[c].flow_dir, 1, c)
     ELSE MkCell(Inactive, 1, 1, c)]

\* fishnets with up to MaxRouted stream cells of two segments
InitStreams ==
  \E R \in FewOf(Cells) : \E opt \in [R -> StreamOptions] :
    InitWith(RoutedGrid(R, opt), RowMajor, "absent", FALSE, "nominal", 0)

\* fishnets with up to MaxRouted cells of one lake and one stream
InitLakes ==
  \E R \in FewOf(Cells) : \E opt \in [R -> LakeOptions] :
    InitWith(RoutedGrid(R, opt), RowMajor, "absent", FALSE, "nominal", 0)

\* a stream cell and one lake-type cell that a previous run has zeroed or
\* that has no LAKE_ID
InitOddLake ==
  \E c \in Cells \ {<<1, 1>>}, kind \in {LakeZeroed, LakeNoId},
     flow_dir \in {1, 16} :
    InitWith(RoutedGrid({<<1, 1>>, c},
                        [d \in {<<1, 1>>, c} |->
                           IF d = c THEN Opt(kind, flow_dir)
                           ELSE Opt(Stream1, 16)]),
             RowMajor, "absent", FALSE, "nominal", 0)

\* one stream cell leaving the grid to the west, flagged or not; up to
\* MaxOdd other cells flagged, land or inactive; either cursor order;
\* files of a previous run in fill_ws
InitExport ==
  \E V \in {W \in SUBSET (Cells \ {<<1, 1>>}) : Cardinality(W) <= MaxOdd} :
    \E kf \in [V -> {Inactive, Land}], flag \in {0, 1},
       ord \in {RowMajor, Reversed(RowMajor)} :
      InitWith([c \in Cells |->
                  IF c = <<1, 1>> THEN MkCell(Stream1, 16, flag, c)
                  ELSE IF c \in V THEN MkCell(kf[c], 1, 1, c)
                  ELSE MkCell(Inactive, 1, 0, c)],
               ord, "absent", TRUE, "nominal", 0)

\* one stream cell, the other cells land; the INI flag set either way, any
\* solver result
InitImport ==
  \E flag_opt \in {"true", "false"}, status \in {0, 1} :
    InitWith([c \in Cells |->
                IF c = <<1, 1>> THEN MkCell(Stream1, 16, 1, c)
                ELSE MkCell(Land, 1, 0, c)],
             RowMajor, flag_opt, FALSE, "any", status)

\* a stream cell whose flow direction is none of the eight codes
InitBadDir ==
  InitWith([c \in Cells |->
              IF c = <<1, 1>> THEN MkCell(Stream1, 3, 1, c)
              ELSE MkCell(Land, 1, 0, c)],
           RowMajor, "absent", FALSE, "nominal", 0)

Init ==
  \/ InitStreams
  \/ InitLakes
  \/ InitOddLake
  \/ InitExport
  \/ InitImport
  \/ InitBadDir

\* ------------------------------------------------------------ phases
\* sys.exit() or an uncaught exception in the named phase
Abort(phase) ==
  /\ pc' = "aborted"
  /\ exit_at' = phase

\* use_crt_fill_flag = inputs_cfg.getboolean(...), False when missing
ReadFlag(flag_opt) == flag_opt = "true"

ReadConfig ==
  /\ pc = "config"
  /\ use_crt_fill_flag' = ReadFlag(cfg_flag)
  /\ pc' = "check"
  /\ UNCHANGED <<picked, rerun, prev>>
  /\ UNCHANGED <<exit_at, cfg_flag, grid, order, cell_dict, iseg_list, seg_i,
                 outseg_dict, files, crt_results, crt_exit, crt_ran,
                 output_data>>

RECURSIVE SetMax(_)
SetMax(S) ==
  LET x == CHOOSE y \in S : TRUE
  IN IF S = {x} THEN x
     ELSE LET m == SetMax(S \ {x}) IN IF x > m THEN x ELSE m

\* support.field_stat_func(hru.polygon_path, f, 'MAXIMUM')
FieldMax(g, f) ==
  IF f = "row" THEN NRows
  ELSE IF f = "col" THEN NCols
  ELSE SetMax({g[c][f] : c \in Cells})

CheckedFields ==
  {"hru_type", "row", "col", "irunbound", "iseg", "flow_dir", "outflow",
   "subbasin"}

\* every checked field is present; one whose maximum is 0 ends the run
InputsOk(g) == \A f \in CheckedFields : FieldMax(g, f) # 0

CheckInputs ==
  /\ pc = "check"
  /\ IF InputsOk(grid)
       THEN pc' = "krch" /\ UNCHANGED exit_at
       ELSE Abort("check")
  /\ UNCHANGED <<picked, rerun, prev>>
  /\ UNCHANGED <<cfg_flag, use_crt_fill_flag, grid, order, cell_dict,
                 iseg_list, seg_i, outseg_dict, files, crt_results, crt_exit,
                 crt_ran, output_data>>

\* if (int(row[0]) in [1, 3] and int(row[1]) > 0)
IsReachCell(hru_type, iseg) == hru_type \in {1, 3} /\ iseg > 0

\* fault seeded for C10: IRCH and JRCH are exchanged
KrchRowSwapped(hru_type, iseg, row, col) ==
  IF IsReachCell(hru_type, iseg) THEN <<1, col, row>> ELSE <<0, 0, 0>>

\* KRCH, IRCH, JRCH of the cell at (row, col)
KrchRow(hru_type, iseg, row, col) ==
  IF IsReachCell(hru_type, iseg) THEN <<1, row, col>> ELSE <<0, 0, 0>>

CalcKrch ==
  /\ pc = "krch"
  /\ grid' = [c \in Cells |->
                LET k == KrchRow(grid[c].hru_type, grid[c].iseg,
                                 RowOf(c), ColOf(c))
                IN [grid[c] EXCEPT !.krch = k[1], !.irch = k[2], !.jrch = k[3]]]
  /\ pc' = "build"
  /\ UNCHANGED <<picked, rerun, prev>>
  /\ UNCHANGED <<exit_at, cfg_flag, use_crt_fill_flag, order, cell_dict,
                 iseg_list, seg_i, outseg_dict, files, crt_results, crt_exit,
                 crt_ran, output_data>>

\* fault seeded for C5: lake cells are skipped
IsTrackedReachOnly(hru_type, krch, lake_id) == hru_type # 0 /\ krch # 0

\* the rows the search cursor does not skip: active, and a reach or a lake
IsTracked(hru_type, krch, lake_id) ==
  hru_type # 0 /\ ~(krch = 0 /\ lake_id = 0)

TrackedCells(g) ==
  {c \in Cells : IsTracked(g[c].hru_type, g[c].krch, g[c].lake_id)}

\* cell_dict[cell] = [HRU_ID, IRUNBOUND, NEXT_CELL, DEM_ADJ, 0, 0, 0]
CellEntry(g, c) ==
  [hru_id |-> HruId(c), irunbound |-> g[c].irunbound,
   next_cell |-> next_row_col(g[c].flow_dir, KeyOf(c)),
   dem_adj |-> g[c].dem_adj, outseg |-> 0, reach |-> 0, maxreach |-> 0]

CellAt(key) == <<key[2], key[1]>>

BuildDict(g) ==
  [key \in {KeyOf(c) : c \in TrackedCells(g)} |-> CellEntry(g, CellAt(key))]

\* iseg_list = sorted(list(set([v[1] for v in cell_dict.values()])))
IsegList(cd) == SortedSeq({cd[k].irunbound : k \in DOMAIN cd})

BuildCellDict ==
  /\ pc = "build"
  /\ IF \A c \in TrackedCells(grid) : grid[c].flow_dir \in FlowDirCodes
       THEN /\ cell_dict' = BuildDict(grid)
            /\ iseg_list' = IsegList(BuildDict(grid))
            /\ pc' = IF IsegList(BuildDict(grid)) = <<>> THEN "save" ELSE "assign"
            /\ UNCHANGED exit_at
       ELSE /\ Abort("build")
            /\ UNCHANGED <<cell_dict, iseg_list>>
  /\ UNCHANGED <<picked, rerun, prev>>
  /\ UNCHANGED <<cfg_flag, use_crt_fill_flag, grid, order, seg_i, outseg_dict,
                 files, crt_results, crt_exit, crt_ran, output_data>>

\* ------------------------------------------- Segment Reach Assignor
\* iseg_dict: the entries of cell_dict whose IRUNBOUND is iseg
IsegCells(cd, iseg) == {k \in DOMAIN cd : cd[k].irunbound = iseg}

\* out_cells, as a set
OutCells(cd, iseg) == {cd[k].next_cell : k \in IsegCells(cd, iseg)}

\* fault seeded for C4: a segment without exit falls back on its own cells
ExitCellsOrMembers(cd, iseg) ==
  IF OutCells(cd, iseg) \ IsegCells(cd, iseg) = {}
    THEN OutCells(cd, iseg)
    ELSE OutCells(cd, iseg) \ IsegCells(cd, iseg)

\* set(out_cells) - set(iseg_cells)
ExitCells(cd, iseg) == OutCells(cd, iseg) \ IsegCells(cd, iseg)

\* fault seeded for C2: the HRU id (v[0]) is read instead of IRUNBOUND (v[1])
OutsegOfHruId(cd, out_cell) ==
  IF out_cell \in DOMAIN cd THEN cd[out_cell].hru_id ELSE exit_seg

\* try: outseg = cell_dict[out_cell][1]  except KeyError: outseg = exit_seg
OutsegOf(cd, out_cell) ==
  IF out_cell \in DOMAIN cd THEN cd[out_cell].irunbound ELSE exit_seg

\* fault seeded for C1: the reach number is the loop index itself
ReachNumberZeroBased(i) == i

\* reach number given at step i of the walk (i counts from 0)
ReachNumber(i) == i + 1

\* MAXREACH of a segment with n cells
MaxReachOf(n) == n

RECURSIVE WalkFromSlots(_, _, _, _, _, _)
\* fault seeded for C12: the number is added to the cell's reach slot
WalkFromSlots(cd, cells, start_cell, i, n, reach_dict) ==
  IF i = n THEN [ok |-> TRUE, reach_dict |-> reach_dict]
  ELSE IF start_cell \notin cells THEN [ok |-> FALSE, reach_dict |-> reach_dict]
  ELSE WalkFromSlots(cd, cells, cd[start_cell].next_cell, i + 1, n,
            [k \in (DOMAIN reach_dict) \cup {start_cell} |->
               IF k = start_cell THEN ReachNumber(i) + cd[start_cell].reach
               ELSE reach_dict[k]])

RECURSIVE Walk(_, _, _, _, _, _)
\* the loop "for i in xrange(len(out_cells))" from step i on: ok is FALSE
\* when iseg_dict[start_cell] raises KeyError
Walk(cd, cells, start_cell, i, n, reach_dict) ==
  IF i = n THEN [ok |-> TRUE, reach_dict |-> reach_dict]
  ELSE IF start_cell \notin cells THEN [ok |-> FALSE, reach_dict |-> reach_dict]
  ELSE Walk(cd, cells, cd[start_cell].next_cell, i + 1, n,
            [k \in (DOMAIN reach_dict) \cup {start_cell} |->
               IF k = start_cell THEN ReachNumber(i) ELSE reach_dict[k]])

\* list(S)[0] for the set S of exit cells of iseg: the element the set's
\* iteration order puts first.  The order is not specified, but the same set
\* built again in the same way iterates in the same order, so a segment
\* whose exit cells were listed before yields the same element again.
FirstOf(pk, iseg, S) ==
  IF iseg \in DOMAIN pk /\ pk[iseg] \in S THEN {pk[iseg]} ELSE S

\* one iteration of "for iseg in iseg_list".  list(set(...))[0] takes the
\* element the set's iteration order puts first: any element.
AssignSegment ==
  /\ pc = "assign"
  /\ seg_i <= Len(iseg_list)
  /\ LET iseg == iseg_list[seg_i]
         iseg_cells == IsegCells(cell_dict, iseg)
         out_cells == OutCells(cell_dict, iseg)
         n == Cardinality(iseg_cells)
         nextpc == IF seg_i = Len(iseg_list) THEN "save" ELSE "assign"
         Stop == /\ Abort("assign")
                 /\ UNCHANGED <<cell_dict, seg_i, outseg_dict, picked>>
         Store(out_cell, outseg, reach_of, maxreach) ==
           /\ picked' = [s \in (DOMAIN picked) \cup {iseg} |->
                           IF s = iseg THEN out_cell ELSE picked[s]]
           /\ cell_dict' = [k \in DOMAIN cell_dict |->
                              IF k \in iseg_cells
                                THEN [cell_dict[k] EXCEPT !.outseg = outseg,
                                                          !.reach = reach_of[k],
                                                          !.maxreach = maxreach]
                                ELSE cell_dict[k]]
           /\ outseg_dict' = [s \in (DOMAIN outseg_dict) \cup {iseg} |->
                                IF s = iseg THEN outseg ELSE outseg_dict[s]]
           /\ seg_i' = seg_i + 1
           /\ pc' = nextpc
           /\ UNCHANGED exit_at
     IN IF ExitCells(cell_dict, iseg) = {}
          THEN Stop
          ELSE \E out_cell \in
                    FirstOf(picked, iseg, ExitCells(cell_dict, iseg)) :
                 LET outseg == OutsegOf(cell_dict, out_cell)
                 IN IF iseg > 0
                      THEN IF iseg_cells \ out_cells = {}
                             THEN Stop
                             ELSE \E start_cell \in iseg_cells \ out_cells :
                                    LET w == Walk(cell_dict, iseg_cells,
                                                  start_cell, 0, n,
                                                  [k \in {} |-> 0])
                                    IN IF w.ok /\ iseg_cells \subseteq DOMAIN w.reach_dict
                                         THEN Store(out_cell, outseg,
                                                    w.reach_dict,
                                                    MaxReachOf(n))
                                         ELSE Stop
                      ELSE Store(out_cell, outseg,
                                 [k \in iseg_cells |-> 0], 0)
  /\ UNCHANGED <<rerun, prev>>
  /\ UNCHANGED <<cfg_flag, use_crt_fill_flag, grid, order, iseg_list, files,
                 crt_results, crt_exit, crt_ran, output_data>>

\* ------------------------------------------------ save to the fishnet
\* if (int(row[0]) > 0 and int(row[1]) != 0)
SaveFromDict(hru_type, iseg) == hru_type > 0 /\ iseg # 0

\* the positions of the update cursor where cell_dict[...] raises KeyError
SaveFaults(g, ord, cd) ==
  {i \in DOMAIN ord :
     /\ SaveFromDict(g[ord[i]].hru_type, g[ord[i]].iseg)
     /\ KeyOf(ord[i]) \notin DOMAIN cd}

\* the smallest element of a nonempty set of positions
First(S) == CHOOSE i \in S : \A j \in S : i <= j

\* row[4:] = cell_dict[(col, row)][4:]   or   row[4:] = [0, 0, 0]
SaveRow(rec, cd, c) ==
  IF SaveFromDict(rec.hru_type, rec.iseg)
    THEN [rec EXCEPT !.outseg = cd[KeyOf(c)].outseg,
                     !.reach = cd[KeyOf(c)].reach,
                     !.maxreach = cd[KeyOf(c)].maxreach]
    ELSE [rec EXCEPT !.outseg = 0, !.reach = 0, !.maxreach = 0]

\* rows are updated in cursor order; a KeyError ends the run with the rows
\* before it already written
SaveReach ==
  /\ pc = "save"
  /\ LET faults == SaveFaults(grid, order, cell_dict)
         stop == IF faults = {} THEN Len(order) + 1 ELSE First(faults)
     IN /\ grid' = [c \in Cells |->
                      IF PosOf(order, c) < stop
                        THEN SaveRow(grid[c], cell_dict, c)
                        ELSE grid[c]]
        /\ IF faults = {}
             THEN pc' = "lake" /\ UNCHANGED exit_at
             ELSE Abort("save")
  /\ UNCHANGED <<picked, rerun, prev>>
  /\ UNCHANGED <<cfg_flag, use_crt_fill_flag, order, cell_dict, iseg_list,
                 seg_i, outseg_dict, files, crt_results, crt_exit, crt_ran,
                 output_data>>

\* ISEG of a cell after "Set all lake iseg to 0"
LakeIseg(hru_type, iseg) == IF hru_type = 2 /\ iseg < 0 THEN 0 ELSE iseg

ResetLakeIseg ==
  /\ pc = "lake"
  /\ grid' = [c \in Cells |->
                [grid[c] EXCEPT !.iseg = LakeIseg(grid[c].hru_type, @)]]
  /\ pc' = "export"
  /\ UNCHANGED <<picked, rerun, prev>>
  /\ UNCHANGED <<exit_at, cfg_flag, use_crt_fill_flag, order, cell_dict,
                 iseg_list, seg_i, outseg_dict, files, crt_results, crt_exit,
                 crt_ran, output_data>>

\* ------------------------------------------------------ Grid Exporter
\* fault seeded for C9: inactive cells are listed too
IsOutflowAnyType(hru_type, outflow) == outflow = 1

\* if int(row[0]) != 0 and int(row[1]) == 1
IsOutflowHru(hru_type, outflow) == hru_type # 0 /\ outflow = 1

\* outflow_hru_list, in cursor order
OutflowHruList(g, ord) ==
  Filter(ord, {c \in Cells : IsOutflowHru(g[c].hru_type, g[c].outflow)})

\* the number written for item i of enumerate(outflow_hru_list)
OutflowId(i) == i + 1

\* OUTFLOW_HRU.DAT: "<N> NUMOUTFLOWHRU", then "<i> <row> <col> ..."
OutflowFile(list) ==
  [exists |-> TRUE, header |-> <<Len(list)>>,
   lines |-> [j \in 1..Len(list) |->
                <<OutflowId(j - 1), RowOf(list[j]), ColOf(list[j])>>]]

DigitChars == <<"0", "1", "2", "3", "4", "5", "6", "7", "8", "9">>

RECURSIVE Str(_)
\* str(t) of a non-negative integer: its decimal digits
Str(t) ==
  IF t < 10 THEN <<DigitChars[t + 1]>>
  ELSE Str(t \div 10) \o <<DigitChars[(t % 10) + 1]>>

RECURSIVE Join(_)
\* ' '.join(toks): the characters of the tokens, one space between two
Join(toks) ==
  IF toks = <<>> THEN <<>>
  ELSE IF Len(toks) = 1 THEN toks[1]
  ELSE toks[1] \o <<" ">> \o Join(Tail(toks))

\* fault seeded for C11: the columns of a row are written in descending order
HruCascFileColsDescending(g) ==
  [exists |-> TRUE,
   header |-> <<crt_hruflg, fill_strmflg, crt_flowflg, fill_visflg, crt_iprn,
                fill_ifill, "0.01", crt_outitmax>>,
   lines |-> [r \in 1..NRows |->
                Join([c \in 1..NCols |->
                        Str(g[<<r, NCols + 1 - c>>].hru_type)])]]

\* HRU_CASC.DAT: the header, then per row (ascending) the HRU_TYPE of every
\* column (ascending); sorted() makes the cursor order irrelevant
HruCascFile(g) ==
  [exists |-> TRUE,
   header |-> <<crt_hruflg, fill_strmflg, crt_flowflg, fill_visflg, crt_iprn,
                fill_ifill, "0.01", crt_outitmax>>,
   lines |-> [r \in 1..NRows |->
                Join([c \in 1..NCols |-> Str(g[<<r, c>>].hru_type)])]]

\* '{:10.6f}'.format(t) of a whole number
Format6(t) == [whole |-> t, decimals |-> "000000"]

\* LAND_ELEV.DAT: "<nrow> <ncol> NROW NCOL", then the DEM_ADJ rows
LandElevFile(g) ==
  [exists |-> TRUE, header |-> <<NRows, NCols>>,
   lines |-> [r \in 1..NRows |->
                [c \in 1..NCols |-> Format6(g[<<r, c>>].dem_adj)]]]

\* XY.DAT: "<id> <x> <y>" per cell, sorted
XyFile ==
  [exists |-> TRUE, header |-> <<>>,
   lines |-> [i \in 1..(NRows * NCols) |->
                LET c == CHOOSE d \in Cells : HruId(d) = i
                IN <<HruId(c), HruX(c), HruY(c)>>]]

\* existing files are removed, then the four files are written; with no
\* outflow cell the run ends before anything is written
ExportFiles ==
  /\ pc = "export"
  /\ LET list == OutflowHruList(grid, order)
     IN IF list # <<>>
          THEN /\ files' = [f \in FileNames |->
                              CASE f = "OUTFLOW_HRU.DAT" -> OutflowFile(list)
                                [] f = "HRU_CASC.DAT" -> HruCascFile(grid)
                                [] f = "LAND_ELEV.DAT" -> LandElevFile(grid)
                                [] OTHER -> XyFile]
               /\ pc' = "run"
               /\ UNCHANGED exit_at
          ELSE /\ files' = [f \in FileNames |-> FileAbsent]
               /\ Abort("export")
  /\ UNCHANGED <<picked, rerun, prev>>
  /\ UNCHANGED <<cfg_flag, use_crt_fill_flag, grid, order, cell_dict,
                 iseg_list, seg_i, outseg_dict, crt_results, crt_exit, crt_ran,
                 output_data>>

\* ------------------------------------------------ External Fill Solver
\* subprocess.check_output(...) and the read of outputstat.txt; a non-zero
\* exit status raises CalledProcessError
RunCRT ==
  /\ pc = "run"
  /\ crt_ran' = TRUE
  /\ IF crt_exit = 0
       THEN /\ \E out \in CrtResults(crt_results) : output_data' = out
            /\ pc' = "locate"
            /\ UNCHANGED exit_at
       ELSE /\ Abort("run")
            /\ UNCHANGED output_data
  /\ UNCHANGED <<picked, rerun, prev>>
  /\ UNCHANGED <<cfg_flag, use_crt_fill_flag, grid, order, cell_dict,
                 iseg_list, seg_i, outseg_dict, files, crt_results, crt_exit>>

\* ------------------------------------------------ Fill Result Importer
HasLine(data, line) == \E i \in DOMAIN data : data[i] = line

\* output_data.index(line), counted from 1; 0 stands for ValueError
IndexOf(data, line) ==
  IF HasLine(data, line) THEN First({i \in DOMAIN data : data[i] = line})
  ELSE 0

\* fault seeded for C6: only the elevation marker is looked for
MarkersFoundDemOnly(data) == HasLine(data, DemMarker)

\* both output_data.index(...) calls succeed
MarkersFound(data) == HasLine(data, DemMarker) /\ HasLine(data, FillMarker)

\* [r.split() for r in output_data[i+1 : i+hru.rows+1]], i counted from 1
BlockAfter(data, i) ==
  LET last == IF i + NRows <= Len(data) THEN i + NRows ELSE Len(data)
  IN [r \in 1..(last - i) |-> data[i + r].toks]

crt_dem_data(data) == BlockAfter(data, IndexOf(data, DemMarker))

crt_fill_data(data) == BlockAfter(data, IndexOf(data, FillMarker))

\* the markers are located and the blocks cut out; len(crt_dem_data[0]) in
\* the log call raises IndexError on an empty block
LocateBlocks ==
  /\ pc = "locate"
  /\ IF ~MarkersFound(output_data)
       THEN Abort("markers")
       ELSE IF crt_dem_data(output_data) = <<>> \/ crt_fill_data(output_data) = <<>>
              THEN Abort("blocks")
              ELSE pc' = "write" /\ UNCHANGED exit_at
  /\ UNCHANGED <<picked, rerun, prev>>
  /\ UNCHANGED <<cfg_flag, use_crt_fill_flag, grid, order, cell_dict,
                 iseg_list, seg_i, outseg_dict, files, crt_results, crt_exit,
                 crt_ran, output_data>>

\* crt_dem_dict[row][col] exists
HasTok(block, c) ==
  RowOf(c) \in DOMAIN block /\ ColOf(c) \in DOMAIN block[RowOf(c)]

TokAt(block, c) == block[RowOf(c)][ColOf(c)]

\* the update of cell c raises: KeyError on a missing token, ValueError on
\* float() of a fill token that is not a number
ImportFault(dem, fill, c) ==
  \/ ~HasTok(dem, c)
  \/ /\ is_number(TokAt(dem, c))
     /\ (~HasTok(fill, c) \/ ~is_number(TokAt(fill, c)))

\* fault seeded for C8: the override policy is not consulted
OverrideElevAnyFlag(flag, crt_fill) == crt_fill > 0

\* if use_crt_fill_flag and float(row[3]) > 0: row[4] = row[2]
OverrideElev(flag, crt_fill) == flag /\ crt_fill > 0

\* the row of cell c after the loop body ran without raising
ImportRow(rec, dem, fill, flag, c) ==
  IF is_number(TokAt(dem, c))
    THEN [rec EXCEPT !.crt_elev = TokAt(dem, c).val,
                     !.crt_fill = TokAt(fill, c).val,
                     !.dem_adj = IF OverrideElev(flag, TokAt(fill, c).val)
                                   THEN TokAt(dem, c).val ELSE @]
    ELSE rec

WriteCRT ==
  /\ pc = "write"
  /\ LET dem == crt_dem_data(output_data)
         fill == crt_fill_data(output_data)
         faults == {i \in DOMAIN order : ImportFault(dem, fill, order[i])}
         stop == IF faults = {} THEN Len(order) + 1 ELSE First(faults)
     IN /\ grid' = [c \in Cells |->
                      IF PosOf(order, c) < stop
                        THEN ImportRow(grid[c], dem, fill, use_crt_fill_flag, c)
                        ELSE grid[c]]
        /\ IF faults = {}
             THEN pc' = "done" /\ UNCHANGED exit_at
             ELSE Abort("import")
  /\ UNCHANGED <<picked, rerun, prev>>
  /\ UNCHANGED <<cfg_flag, use_crt_fill_flag, order, cell_dict, iseg_list,
                 seg_i, outseg_dict, files, crt_results, crt_exit, crt_ran,
                 output_data>>

\* ------------------------------------------------------ specification
Next ==
  \/ ReadConfig
  \/ CheckInputs
  \/ CalcKrch
  \/ BuildCellDict
  \/ AssignSegment
  \/ SaveReach
  \/ ResetLakeIseg
  \/ ExportFiles
  \/ RunCRT
  \/ LocateBlocks
  \/ WriteCRT

Spec == Init /\ [][Next]_vars

\* -------------------------------------------------- running it again
\* the run has ended after a routing pass that went through
RoutedAndEnded ==
  \/ pc = "done"
  \/ pc = "aborted" /\ exit_at \in {"export", "run", "markers", "blocks",
                                    "import"}

\* the Assignor ("Calculate IREACH and OUTSEG": outseg_dict = dict() and the
\* loop over iseg_list) is entered a second time, on the cell_dict whose
\* slots its first run has filled
Reassign ==
  /\ rerun = ""
  /\ pc = "save"
  /\ rerun' = "assign"
  /\ prev' = cell_dict
  /\ outseg_dict' = [k \in {} |-> 0]
  /\ seg_i' = 1
  /\ pc' = IF iseg_list = <<>> THEN "save" ELSE "assign"
  /\ UNCHANGED <<exit_at, cfg_flag, use_crt_fill_flag, grid, order, cell_dict,
                 iseg_list, files, crt_results, crt_exit, crt_ran,
                 output_data, picked>>

\* crt_fill_parameters() is entered a second time, on the fishnet and the
\* fill_ws files the first run left
Rerun ==
  /\ rerun = ""
  /\ RoutedAndEnded
  /\ rerun' = "script"
  /\ prev' = grid
  /\ pc' = "config"
  /\ exit_at' = ""
  /\ use_crt_fill_flag' = FALSE
  /\ cell_dict' = [k \in {} |-> 0]
  /\ iseg_list' = <<>>
  /\ seg_i' = 1
  /\ outseg_dict' = [k \in {} |-> 0]
  /\ crt_ran' = FALSE
  /\ output_data' = <<>>
  /\ UNCHANGED <<cfg_flag, grid, order, files, crt_results, crt_exit, picked>>

\* the fishnets of the routing families
InitTwice ==
  \/ InitStreams
  \/ InitLakes
  \/ InitOddLake

NextTwice ==
  \/ Next
  \/ Reassign
  \/ Rerun

SpecTwice == InitTwice /\ [][NextTwice]_vars

\* ============================================================ claims
\* the segments the Assignor has finished
Processed == {iseg_list[i] : i \in 1..(seg_i - 1)}

\* the Assignor's loop has run to its end
AssignDone ==
  \/ pc \in {"save", "lake", "export", "run", "locate", "write", "done"}
  \/ pc = "aborted" /\ exit_at \in {"save", "export", "run", "markers",
                                    "blocks", "import"}

\* the Builder has run
BuildDone == AssignDone \/ pc = "assign" \/ (pc = "aborted" /\ exit_at = "assign")

\* the members of segment s that flow to a cell outside the segment
ExitMembers(s) ==
  {m \in IsegCells(cell_dict, s) :
     cell_dict[m].next_cell \notin IsegCells(cell_dict, s)}

\* segment s is a single linear chain from a head to an exit cell
WellFormed(s) ==
  LET M == IsegCells(cell_dict, s)
      k == Cardinality(M)
  IN \E f \in [1..k -> M] :
       /\ \A i, j \in 1..k : i # j => f[i] # f[j]
       /\ \A i \in 1..(k - 1) : cell_dict[f[i]].next_cell = f[i + 1]
       /\ cell_dict[f[k]].next_cell \notin M

\* the address is that of a tracked cell of the fishnet: an active cell
\* that is a reach (type 1 or 3 with a positive segment id) or has a lake id
TrackedAddress(key) ==
  /\ CellAt(key) \in Cells
  /\ grid[CellAt(key)].hru_type # 0
  /\ \/ grid[CellAt(key)].hru_type \in {1, 3} /\ grid[CellAt(key)].iseg > 0
     \/ grid[CellAt(key)].lake_id # 0

\* C1: every well-formed stream segment (s > 0) of k cells is assigned, and
\* once assigned its reach numbers are exactly 1..k, each used once: the
\* head cell has 1, the downstream member of a member has its number plus
\* 1, the member numbered k flows out of the segment, and every member has
\* max_reach k.
C1_ReachNumbers ==
  /\ \A s \in Processed :
       s > 0 =>
         LET M == IsegCells(cell_dict, s)
             k == Cardinality(M)
         IN /\ WellFormed(s)
            /\ {cell_dict[m].reach : m \in M} = 1..k
            /\ \A m, n \in M : cell_dict[m].reach = cell_dict[n].reach => m = n
            /\ \A m \in M :
                 /\ (\A n \in M : cell_dict[n].next_cell # m)
                      => cell_dict[m].reach = 1
                 /\ cell_dict[m].next_cell \in M
                      => cell_dict[cell_dict[m].next_cell].reach
                           = cell_dict[m].reach + 1
                 /\ cell_dict[m].reach = k => cell_dict[m].next_cell \notin M
                 /\ cell_dict[m].maxreach = k
  /\ (pc = "aborted" /\ exit_at = "assign" /\ iseg_list[seg_i] > 0)
       => ~WellFormed(iseg_list[seg_i])

\* C1 witness: a stream segment of three cells has been assigned
C1_Witness ==
  /\ AssignDone
  /\ \E s \in Processed : s > 0 /\ Cardinality(IsegCells(cell_dict, s)) = 3

\* C2: the outseg of every assigned segment is the irunbound of the tracked
\* cell at the downstream address of an exit cell of the segment, and 0
\* when that address is no tracked cell; every member carries that outseg.
C2_Outseg ==
  \A s \in Processed :
    /\ s \in DOMAIN outseg_dict
    /\ \E e \in ExitMembers(s) :
         outseg_dict[s] =
           IF TrackedAddress(cell_dict[e].next_cell)
             THEN grid[CellAt(cell_dict[e].next_cell)].irunbound
             ELSE 0
    /\ \A m \in IsegCells(cell_dict, s) : cell_dict[m].outseg = outseg_dict[s]

\* C2 witness: segment 1 (two cells) feeds segment 2, which leaves the
\* domain: outseg 2 for segment 1 and 0 for segment 2
C2_Witness ==
  /\ AssignDone
  /\ Processed = {1, 2}
  /\ Cardinality(IsegCells(cell_dict, 1)) = 2
  /\ \A m \in IsegCells(cell_dict, 1) : cell_dict[m].outseg = 2
  /\ \A m \in IsegCells(cell_dict, 2) : cell_dict[m].outseg = 0

\* the lake ISEG reset has run
LakeResetDone ==
  \/ pc \in {"export", "run", "locate", "write", "done"}
  \/ pc = "aborted" /\ exit_at \in {"export", "run", "markers", "blocks",
                                    "import"}

\* C3: once saved and reset, every member cell of a lake segment (s <= 0)
\* has reach_index 0, max_reach 0, the segment's computed outseg as its
\* outseg_id, and segment_id 0.
C3_LakeWrittenBack ==
  LakeResetDone =>
    \A s \in Processed :
      s <= 0 =>
        \A m \in IsegCells(cell_dict, s) :
          /\ grid[CellAt(m)].reach = 0
          /\ grid[CellAt(m)].maxreach = 0
          /\ grid[CellAt(m)].outseg = outseg_dict[s]
          /\ grid[CellAt(m)].iseg = 0

\* a segment whose topology the Assignor does not accept: a stream segment
\* that is no single chain, or any segment with no exit cell
Rejected(s) ==
  \/ s > 0 /\ ~WellFormed(s)
  \/ ExitMembers(s) = {}

\* nothing of the Assignor's results is in the fishnet, and no CRT file has
\* been written
NothingWritten ==
  /\ \A c \in Cells :
       /\ grid[c].outseg = NoValue
       /\ grid[c].reach = NoValue
       /\ grid[c].maxreach = NoValue
  /\ \A f \in FileNames : files[f] \in {FileAbsent, StaleFile}

\* C4 as stated: a segment, stream or lake, with no exit cell, more than
\* one exit cell or a non-chain structure ends the run in the assignment
\* phase with nothing written.
C4_AnyMalformedFatal ==
  (BuildDone /\ \E s \in Range(iseg_list) : ~WellFormed(s))
    => /\ pc = "assign" \/ (pc = "aborted" /\ exit_at = "assign")
       /\ NothingWritten
       /\ \A s \in Processed : WellFormed(s)

\* C4 amended: a stream segment with no exit cell, more than one exit cell
\* or a non-chain structure, and a lake segment with no exit cell, end the
\* run in the assignment phase with nothing written and are never
\* assigned; nothing else ends the run in the assignment phase, so a lake
\* segment with several exit cells is assigned.
C4_RejectedFatal ==
  /\ (BuildDone /\ \E s \in Range(iseg_list) : Rejected(s))
       => /\ pc = "assign" \/ (pc = "aborted" /\ exit_at = "assign")
          /\ NothingWritten
  /\ \A s \in Processed : ~Rejected(s)
  /\ (pc = "aborted" /\ exit_at = "assign")
       => Rejected(iseg_list[seg_i]) /\ NothingWritten

\* C4 witness: the run ended at a rejected stream segment after a lake
\* segment had been assigned in memory
C4_Witness ==
  /\ pc = "aborted"
  /\ exit_at = "assign"
  /\ seg_i > 1
  /\ iseg_list[seg_i] > 0

\* the Builder has just run
JustBuilt == (pc = "assign" /\ seg_i = 1) \/ (pc = "save" /\ iseg_list = <<>>)

\* C5 as stated: the keys of the cell mapping are the cells with
\* activity_type != 0 and (segment_id != 0 or lake_id != 0).
C5_KeysBySegmentId ==
  JustBuilt =>
    DOMAIN cell_dict =
      {KeyOf(c) : c \in {d \in Cells :
                           /\ grid[d].hru_type # 0
                           /\ (grid[d].iseg # 0 \/ grid[d].lake_id # 0)}}

\* C5 amended: the keys are the cells with activity_type != 0 that are a
\* reach (krch != 0: activity_type 1 or 3 and segment_id > 0) or have
\* lake_id != 0; each key holds the cell's unique_id, irunbound, downstream
\* address and elevation, with zero outseg, reach and max_reach when
\* built; the segment list is the ascending list of the distinct irunbound.
C5_KeysByKrch ==
  BuildDone =>
    /\ DOMAIN cell_dict =
         {KeyOf(c) : c \in {d \in Cells :
                              /\ grid[d].hru_type # 0
                              /\ \/ grid[d].hru_type \in {1, 3} /\ grid[d].iseg > 0
                                 \/ grid[d].lake_id # 0}}
    /\ \A c \in Cells :
         KeyOf(c) \in DOMAIN cell_dict =>
           /\ cell_dict[KeyOf(c)].hru_id = HruId(c)
           /\ cell_dict[KeyOf(c)].irunbound = grid[c].irunbound
           /\ cell_dict[KeyOf(c)].next_cell
                = <<ColOf(c) + ColOffset(grid[c].flow_dir),
                    RowOf(c) + RowOffset(grid[c].flow_dir)>>
           /\ cell_dict[KeyOf(c)].dem_adj = DemOf(c)
           /\ JustBuilt =>
                /\ cell_dict[KeyOf(c)].outseg = 0
                /\ cell_dict[KeyOf(c)].reach = 0
                /\ cell_dict[KeyOf(c)].maxreach = 0
    /\ Range(iseg_list) = {cell_dict[k].irunbound : k \in DOMAIN cell_dict}
    /\ \A i, j \in DOMAIN iseg_list : i < j => iseg_list[i] < iseg_list[j]

\* C5 witness: built from a fishnet with a tracked stream cell and an
\* active cell that has a segment id but is neither a reach nor a lake
C5_Witness ==
  /\ JustBuilt
  /\ Len(iseg_list) = 1
  /\ \E c \in Cells :
       /\ grid[c].hru_type # 0
       /\ grid[c].iseg # 0
       /\ KeyOf(c) \notin DOMAIN cell_dict

\* no cell has been given a solver result
NothingImported ==
  \A c \in Cells :
    /\ grid[c].crt_elev = NoValue
    /\ grid[c].crt_fill = NoValue
    /\ grid[c].dem_adj = DemOf(c)

\* a marker line is not in the result file that was read
MarkerMissing ==
  /\ crt_ran
  /\ pc # "aborted" \/ exit_at # "run"
  /\ \/ \A i \in DOMAIN output_data : output_data[i] # DemMarker
     \/ \A i \in DOMAIN output_data : output_data[i] # FillMarker

\* C6: a result file without the elevation marker or without the fill
\* marker ends the run where the markers are located; no cell's crt_elev,
\* crt_fill or elevation changes.
C6_MissingMarkerFatal ==
  /\ MarkerMissing
       => /\ pc = "locate" \/ (pc = "aborted" /\ exit_at = "markers")
          /\ NothingImported
  /\ (pc = "aborted" /\ exit_at = "markers") => MarkerMissing

\* C6 witness: the run ended on a result file that has the fill marker
\* but not the elevation marker
C6_Witness ==
  /\ pc = "aborted"
  /\ exit_at = "markers"
  /\ \E i \in DOMAIN output_data : output_data[i] = FillMarker

\* the result file read has both markers and a token for every cell in
\* both blocks
BothBlocksComplete ==
  /\ \E i \in DOMAIN output_data : output_data[i] = DemMarker
  /\ \E i \in DOMAIN output_data : output_data[i] = FillMarker
  /\ \A c \in Cells :
       /\ HasTok(crt_dem_data(output_data), c)
       /\ HasTok(crt_fill_data(output_data), c)

\* both tokens of cell c are numbers
BothNumeric(c) ==
  /\ TokAt(crt_dem_data(output_data), c).num
  /\ TokAt(crt_fill_data(output_data), c).num

\* C7: a token that is no number, in either block, leaves its cell's
\* crt_elev, crt_fill and elevation unchanged and does not end the run;
\* every other cell receives crt_elev and crt_fill from the two blocks.
C7_TokenSkipped ==
  BothBlocksComplete =>
    /\ ~(pc = "aborted" /\ exit_at = "import")
    /\ pc = "done" =>
         \A c \in Cells :
           IF BothNumeric(c)
             THEN /\ grid[c].crt_elev = TokAt(crt_dem_data(output_data), c).val
                  /\ grid[c].crt_fill = TokAt(crt_fill_data(output_data), c).val
             ELSE /\ grid[c].crt_elev = NoValue
                  /\ grid[c].crt_fill = NoValue
                  /\ grid[c].dem_adj = DemOf(c)

\* C8: a cell's elevation is its imported crt_elev exactly when
\* use_crt_fill_flag is enabled and its imported crt_fill is greater than 0;
\* otherwise (flag disabled or missing, crt_fill <= 0, token skipped) it is
\* the elevation the cell started with.
C8_Override ==
  /\ \A c \in Cells :
       grid[c].dem_adj =
         IF cfg_flag = "true" /\ grid[c].crt_fill > 0
           THEN grid[c].crt_elev
           ELSE DemOf(c)
  /\ pc = "done" =>
       \A c \in Cells :
         IF TokAt(crt_dem_data(output_data), c).num
           THEN /\ grid[c].crt_elev = TokAt(crt_dem_data(output_data), c).val
                /\ grid[c].crt_fill = TokAt(crt_fill_data(output_data), c).val
           ELSE grid[c].crt_fill = NoValue /\ grid[c].crt_elev = NoValue

\* C8 witness: an import with the flag enabled that overwrote one cell's
\* elevation, kept that of a cell with fill 0 and that of a skipped cell
C8_Witness ==
  /\ pc = "done"
  /\ cfg_flag = "true"
  /\ \E c \in Cells : grid[c].crt_fill > 0 /\ grid[c].dem_adj = grid[c].crt_elev
  /\ \E c \in Cells : grid[c].crt_fill = 0 /\ grid[c].dem_adj = DemOf(c)
  /\ \E c \in Cells : grid[c].crt_fill = NoValue /\ grid[c].dem_adj = DemOf(c)

\* the cells with activity_type != 0 and the outflow flag set
OutflowCells == {c \in Cells : grid[c].hru_type # 0 /\ grid[c].outflow = 1}

\* the Exporter has written its files
ExportDone ==
  \/ pc \in {"run", "locate", "write", "done"}
  \/ pc = "aborted" /\ exit_at \in {"run", "markers", "blocks", "import"}

\* C9: the outflow list has the count N of outflow cells as header and one
\* line per outflow cell, numbered 1..N, with the cell's row and column;
\* with N = 0 the run ends in the export: no outflow file is written, the
\* solver is not invoked and nothing is imported.
C9_OutflowList ==
  LET N == Cardinality(OutflowCells)
      f == files["OUTFLOW_HRU.DAT"]
  IN /\ ExportDone =>
          /\ f.exists
          /\ f.header = <<N>>
          /\ Len(f.lines) = N
          /\ \A j \in 1..N : f.lines[j][1] = j
          /\ \A c \in OutflowCells :
               Cardinality({j \in 1..N :
                              f.lines[j][2] = RowOf(c) /\ f.lines[j][3] = ColOf(c)}) = 1
     /\ N = 0 =>
          /\ ~ExportDone
          /\ pc # "run"
          /\ ~crt_ran
          /\ NothingImported
          /\ f \in {FileAbsent, StaleFile}
          /\ (pc = "aborted" /\ exit_at = "export") => f = FileAbsent
     /\ (pc = "aborted" /\ exit_at = "export") => N = 0

\* C9 witness: the run ended in the export, the only outflow flags being on
\* inactive cells; the stale outflow file is gone
C9_Witness ==
  /\ pc = "aborted"
  /\ exit_at = "export"
  /\ \E c \in Cells : grid[c].outflow = 1
  /\ ~files["OUTFLOW_HRU.DAT"].exists

\* KRCH, IRCH and JRCH have been calculated
KrchDone == pc \notin {"config", "check", "krch"} /\ exit_at # "check"

\* C10: every cell with activity_type 1 or 3 and segment_id > 0 has
\* krch = 1, irch = its row, jrch = its column; every other cell has
\* krch = irch = jrch = 0; in every state after the calculation, the final
\* grid included.
C10_Krch ==
  KrchDone =>
    \A c \in Cells :
      IF grid[c].hru_type \in {1, 3} /\ grid[c].iseg > 0
        THEN grid[c].krch = 1 /\ grid[c].irch = RowOf(c) /\ grid[c].jrch = ColOf(c)
        ELSE grid[c].krch = 0 /\ grid[c].irch = 0 /\ grid[c].jrch = 0

\* C10 witness: a finished run whose grid has a reach cell off the
\* diagonal and a lake cell whose segment_id was reset
C10_Witness ==
  /\ pc = "done"
  /\ \E c \in Cells : grid[c].krch = 1 /\ grid[c].irch # grid[c].jrch
  /\ \E c \in Cells :
       /\ grid[c].hru_type = 2
       /\ grid[c].iseg = 0
       /\ grid[c].outseg # 0
       /\ grid[c].krch = 0


\* ---------------------------------------------------------------- C11
\* the value of a decimal digit character
DigitVal(ch) == (CHOOSE i \in 1..10 : DigitChars[i] = ch) - 1

RECURSIVE ParseInt(_)
\* int(tok) of a token of decimal digits
ParseInt(tok) ==
  IF Len(tok) = 1 THEN DigitVal(tok[1])
  ELSE 10 * ParseInt(SubSeq(tok, 1, Len(tok) - 1)) + DigitVal(tok[Len(tok)])

RECURSIVE SplitFrom(_, _, _)
\* line.split() from the characters s on, cur being the token in progress
\* and out the tokens found so far
SplitFrom(s, cur, out) ==
  IF s = <<>> THEN (IF cur = <<>> THEN out ELSE Append(out, cur))
  ELSE IF Head(s) = " "
         THEN SplitFrom(Tail(s), <<>>,
                        IF cur = <<>> THEN out ELSE Append(out, cur))
         ELSE SplitFrom(Tail(s), Append(cur, Head(s)), out)

\* the tokens of a line of characters
Split(line) == SplitFrom(line, <<>>, <<>>)

\* the activity-grid file has been written by this run
CascWritten ==
  /\ ExportDone
  /\ files["HRU_CASC.DAT"].exists
  /\ files["HRU_CASC.DAT"] # StaleFile

\* C11: the activity-grid file, re-parsed line by line and token by token,
\* is the activity_type matrix of the grid: one line per row in ascending
\* row order, one token per column in ascending column order, whatever the
\* order in which the cursor enumerates the cells.
C11_RoundTrip ==
  CascWritten =>
    LET f == files["HRU_CASC.DAT"]
    IN /\ Len(f.lines) = NRows
       /\ \A r \in 1..NRows :
            /\ Len(Split(f.lines[r])) = NCols
            /\ \A c \in 1..NCols :
                 ParseInt(Split(f.lines[r])[c]) = grid[<<r, c>>].hru_type

\* the file is written from a cursor that enumerates the cells in reverse,
\* for a grid with a row of two different activity types
C11_Witness ==
  /\ CascWritten
  /\ order = Reversed(RowMajor)
  /\ \E r \in 1..NRows :
       grid[<<r, 1>>].hru_type # grid[<<r, NCols>>].hru_type


\* ---------------------------------------------------------------- C12
\* C12: when the Assignor runs a second time on the cell mapping its first
\* run filled, it does not end the run, and every tracked cell keeps the
\* outseg_id, reach_index and max_reach the first run gave it, while the
\* second run goes through the segments and after it.
C12_Idempotent ==
  rerun = "assign" =>
    /\ ~(pc = "aborted" /\ exit_at = "assign")
    /\ DOMAIN cell_dict = DOMAIN prev
    /\ \A k \in DOMAIN cell_dict :
         /\ cell_dict[k].outseg = prev[k].outseg
         /\ cell_dict[k].reach = prev[k].reach
         /\ cell_dict[k].maxreach = prev[k].maxreach

\* the second run of the Assignor has gone through all segments, one of
\* them a stream segment of several reaches, another a lake segment
C12_Witness ==
  /\ rerun = "assign"
  /\ pc = "save"
  /\ \E k \in DOMAIN cell_dict : cell_dict[k].reach >= 2
  /\ \E k \in DOMAIN cell_dict : cell_dict[k].irunbound < 0

\* ---------------------------------------------------------------- C13
\* C13: when the script runs again on the fishnet a finished routing pass
\* left, then after its save and lake reset every cell has the outseg_id,
\* reach_index and max_reach the first pass wrote; lake cells keep their
\* non-zero outseg_id.
C13_RerunKeeps ==
  (rerun = "script" /\ LakeResetDone) =>
    \A c \in Cells :
      /\ grid[c].outseg = prev[c].outseg
      /\ grid[c].reach = prev[c].reach
      /\ grid[c].maxreach = prev[c].maxreach

====
